---- MODULE Spec2Model ----
(***************************************************************************)
(* Event-emission admission controller of the validator node               *)
(* (package emitter: isAllowedToEmit, recheckIdleTime) and the quorum      *)
(* progress metric (updMetric, scalarUpdMetric).                           *)
(*                                                                         *)
(* Durations and timestamps are nanoseconds, as time.Duration is.  Metrics *)
(* are fixed-point numbers with piecefunc.DecimalUnit = 1e6 standing for   *)
(* 1.0.  The unsigned 64-bit types of the code (ancestor.Metric,           *)
(* idx.Block) are modelled modulo UintMod, a power of two that is larger   *)
(* than every product the model forms, so that the only wrap-arounds are   *)
(* those of subtractions, as in the code.                                  *)
(***************************************************************************)
EXTENDS Integers, Sequences, FiniteSets, TLC

\* piecefunc.DecimalUnit: the fixed-point representation of 1.0
DecimalUnit == 1000000

\* modulus of the unsigned integer types (scaled down from 2^64)
UintMod == 2^24

\* the values int64(NaN) takes on the supported targets, scaled down from
\* 2^63: math.MinInt64 (amd64), 0 (arm64), math.MaxInt64 (riscv64)
DurationLimit == 2^30

\* ---- bounds of the model ------------------------------------------------
MaxMs == 2            \* timestamps range over 0 .. MaxMs milliseconds
MaxGas == 3           \* gasPowerLeft.Min() ranges over 0 .. MaxGas
MaxBlock == 2         \* the latest block index ranges over 0 .. MaxBlock
NumValidators == 51   \* size of the validator set (one more than the top 50)
MaxSeq == 3           \* event sequence numbers range over 0 .. MaxSeq
MaxWeight == 4        \* validator weights range over 1 .. MaxWeight
MaxBeyond == 2        \* arguments of FakeKey range over 0 .. 400 + MaxBeyond
MaxSent == 2          \* at most MaxSent events are sent on the event channel
MaxHash == 3          \* hash ids of the events range over 1 .. MaxHash
MaxCloseCalls == 2    \* Close is called at most MaxCloseCalls times

\* ---- value sets ---------------------------------------------------------
TimeStep == DecimalUnit   \* one millisecond, in nanoseconds

\* values of time.Now()
NowTimes == {k * TimeStep : k \in 0..MaxMs}

\* creation times of candidate events: the grid and the instants 1ns before
Times == NowTimes \cup {k * TimeStep - 1 : k \in 1..MaxMs}

Metrics == {DecimalUnit \div 10, DecimalUnit \div 2, DecimalUnit}

GasValues == 0..MaxGas

SelfParents == {[nil |-> TRUE, gas |-> 0], [nil |-> FALSE, gas |-> 1]}

Creators == {1, 2, NumValidators}

ThresholdConfigs ==
    {[EmergencyThreshold |-> 0, NoTxsThreshold |-> 0],
     [EmergencyThreshold |-> 1, NoTxsThreshold |-> 3]}

IntervalConfigs ==
    {[Min |-> TimeStep, Confirming |-> TimeStep, Max |-> MaxMs * TimeStep]}

SlackValues == {2, 3}

StakeRatioMaps ==
    {(1 :> (7 * DecimalUnit) \div 10) @@ (2 :> (3 * DecimalUnit) \div 10),
     (1 :> (6 * DecimalUnit) \div 10) @@ (2 :> (35 * DecimalUnit) \div 100)}

\* the deployments explored: the usual one (thresholds 1 and 3, slack 2, the
\* first stake distribution) and those that depart from it in one respect
UsualConfig ==
    [thresholds |-> [EmergencyThreshold |-> 1, NoTxsThreshold |-> 3],
     slack |-> 2,
     ratios |-> (1 :> (7 * DecimalUnit) \div 10) @@ (2 :> (3 * DecimalUnit) \div 10)]

EmitterConfigs ==
    {c \in [thresholds : ThresholdConfigs, slack : SlackValues,
            ratios : StakeRatioMaps] :
        \/ c.thresholds = UsualConfig.thresholds /\ c.slack = UsualConfig.slack
        \/ c.thresholds = UsualConfig.thresholds /\ c.ratios = UsualConfig.ratios
        \/ c.slack = UsualConfig.slack /\ c.ratios = UsualConfig.ratios}

NaNDurations == {0 - DurationLimit, 0, DurationLimit - 1}

Seqs == 0..MaxSeq

\* the arguments scalarUpdMetric gives to the piece function
PieceArgs == {d * DecimalUnit : d \in Seqs}

PieceValues ==
    {0, DecimalUnit \div 3, (2 * DecimalUnit) \div 3, DecimalUnit - 1, DecimalUnit}

\* the piece functions: total, monotone non-decreasing, bounded by DecimalUnit
PieceFuncs ==
    {f \in [PieceArgs -> PieceValues] :
        \A x, y \in PieceArgs : x <= y => f[x] <= f[y]}

\* validator sets of the metric calls: the weights by validator index
WeightSets == [1..2 -> 1..MaxWeight]

VARIABLES
    prevEmittedAtTime,   \* em.prevEmittedAtTime
    prevIdleTime,        \* em.prevIdleTime
    prevEmittedAtBlock,  \* em.prevEmittedAtBlock
    stakeRatio,          \* em.stakeRatio: ValidatorID -> ratio (partial map)
    sortedIDs,           \* em.validators.SortedIDs()
    config,              \* em.config: Validator.ID, EmergencyThreshold, NoTxsThreshold
    intervals,           \* em.intervals: Min, Confirming, Max
    blockMissedSlack,    \* em.world.GetRules().Economy.BlockMissedSlack
    latestBlockIndex,    \* em.world.GetLatestBlockIndex()
    isIdle,              \* em.idle()
    ret,                 \* the last call of isAllowedToEmit and its outcome
    worldLock,           \* em.world.Lock(): "free" or the thread that holds it
    emitPc,              \* position of the thread that calls isAllowedToEmit
    snap,                \* locals of isAllowedToEmit after its first read
    recheck,             \* position and time.Now() of recheckIdleTime
    kret,                \* the last call of FakeKey and its outcome
    enabled,             \* e.enabled
    conn,                \* e.conn: "nil", "open" or "closed"
    eventChannel,        \* e.eventChannel: made, closed, and its buffer
    sub,                 \* e.sub: "nil", "active" or "unsubscribed"
    startPc,             \* position of the thread in Start
    closePc,             \* position of the thread in Close
    closeCalls,          \* number of calls of Close so far
    watcherPc,           \* position of the goroutine that watches new events
    worker,              \* position of the worker, its event and tokens left
    panicked,            \* a panic has ended the process
    sent,                \* the events sent on the channel, in order
    validated,           \* the events given to validateHashEvent, in order
    queue,               \* the calls of AddToQueue, in order
    chanCloses,          \* number of times close(e.eventChannel) was executed
    sentAfterClose,      \* an event was sent on the closed channel
    eventMetricF,        \* the piece function behind eventMetric
    eret,                \* the last call of eventMetric and its outcome
    validators,          \* the validator set of the metric calls: weights by index
    scalarUpdMetricF,    \* the piece function scalarUpdMetricF
    mret                 \* the last call of updMetric and its result

vars == <<prevEmittedAtTime, prevIdleTime, prevEmittedAtBlock, stakeRatio,
          sortedIDs, config, intervals, blockMissedSlack, latestBlockIndex,
          isIdle, ret, worldLock, emitPc, snap, recheck, validators,
          scalarUpdMetricF, mret, eventMetricF, eret, kret, enabled, conn,
          eventChannel, sub, startPc, closePc, closeCalls, watcherPc, worker,
          panicked, sent, validated, queue, chanCloses, sentAfterClose>>

metricVars == <<validators, scalarUpdMetricF, mret, eventMetricF, eret>>

keyVars == <<kret>>

listenerVars == <<enabled, conn, eventChannel, sub, startPc, closePc, closeCalls,
                  watcherPc, worker, panicked, sent, validated, queue,
                  chanCloses, sentAfterClose>>

\* what the emitter and the metric functions never touch
sideVars == <<keyVars, listenerVars>>

emitterState == <<prevEmittedAtTime, prevIdleTime, prevEmittedAtBlock, stakeRatio>>

\* the lock and the positions of the two threads
threadVars == <<worldLock, emitPc, snap, recheck>>

\* ---- arithmetic of the code's types ---------------------------------------
\* a value of an unsigned integer type
Uint(x) == x % UintMod

\* ---- the quorum progress metric ------------------------------------------
\* validators.GetWeightByIdx(validatorIdx), validatorIdx counted from 0
GetWeightByIdx(validatorIdx) == validators[validatorIdx + 1]

TotalWeight ==
    LET sum[i \in 0..Len(validators)] ==
            IF i = 0 THEN 0 ELSE sum[i - 1] + validators[i]
    IN  sum[Len(validators)]

\* scalarUpdMetric with the weight and the total weight exchanged
scalarUpdMetricSwapped(diff, weight, totalWeight) ==
    Uint(scalarUpdMetricF[Uint(diff * DecimalUnit)] * totalWeight) \div weight

scalarUpdMetric(diff, weight, totalWeight) ==
    Uint(scalarUpdMetricF[Uint(diff * DecimalUnit)] * weight) \div totalWeight

\* updMetric with the two terms of its subtraction exchanged
updMetricOfReversed(median, cur, upd, weight, totalWeight) ==
    IF upd <= median \/ upd <= cur
    THEN 0
    ELSE IF median < cur
         THEN Uint(scalarUpdMetric(cur - median, weight, totalWeight)
                   - scalarUpdMetric(upd - median, weight, totalWeight))
         ELSE scalarUpdMetric(upd - median, weight, totalWeight)

\* updMetric once the validator's weight and the total weight are looked up
updMetricOf(median, cur, upd, weight, totalWeight) ==
    IF upd <= median \/ upd <= cur
    THEN 0
    ELSE IF median < cur
         THEN Uint(scalarUpdMetric(upd - median, weight, totalWeight)
                   - scalarUpdMetric(cur - median, weight, totalWeight))
         ELSE scalarUpdMetric(upd - median, weight, totalWeight)

\* updMetric with strict comparisons in its guard
updMetricStrictGuard(median, cur, upd, validatorIdx) ==
    IF upd < median \/ upd < cur
    THEN 0
    ELSE LET weight == GetWeightByIdx(validatorIdx)
         IN  IF median < cur
             THEN Uint(scalarUpdMetric(upd - median, weight, TotalWeight)
                       - scalarUpdMetric(cur - median, weight, TotalWeight))
             ELSE scalarUpdMetric(upd - median, weight, TotalWeight)

\* updMetric without the comparison of upd to cur in its guard
updMetricNoCurGuard(median, cur, upd, validatorIdx) ==
    IF upd <= median
    THEN 0
    ELSE LET weight == GetWeightByIdx(validatorIdx)
         IN  IF median < cur
             THEN Uint(scalarUpdMetric(upd - median, weight, TotalWeight)
                       - scalarUpdMetric(cur - median, weight, TotalWeight))
             ELSE scalarUpdMetric(upd - median, weight, TotalWeight)

updMetric(median, cur, upd, validatorIdx) ==
    updMetricOf(median, cur, upd, GetWeightByIdx(validatorIdx), TotalWeight)

\* ---- kickStartMetric / eventMetric -----------------------------------------
\* the arguments eventMetric gives to the piece function
EventArgs == {0, DecimalUnit \div 2, DecimalUnit}

\* values of the piece function around the thresholds of kickStartMetric
EventPieceValues ==
    {0, (7 * DecimalUnit) \div 10, (7 * DecimalUnit) \div 10 + 1,
     (8 * DecimalUnit) \div 10, (8 * DecimalUnit) \div 10 + 1,
     (9 * DecimalUnit) \div 10 - 1, (9 * DecimalUnit) \div 10, DecimalUnit}

\* the piece functions behind eventMetric: total, monotone non-decreasing,
\* bounded by DecimalUnit
EventPieceFuncs ==
    {f \in [EventArgs -> EventPieceValues] :
        \A x, y \in EventArgs : x <= y => f[x] <= f[y]}

\* kickStartMetric with both tests made on the metric it was given
kickStartMetricOnInput(metric, seq) ==
    LET first == IF seq <= 2 /\ metric < (9 * DecimalUnit) \div 10
                 THEN DecimalUnit \div 10
                 ELSE 0
        second == IF seq <= 1 /\ metric <= (8 * DecimalUnit) \div 10
                  THEN (2 * DecimalUnit) \div 10
                  ELSE 0
    IN  Uint(metric + first + second)

\* kickStartMetric without the test of seq in its first boost
kickStartMetricAnySeq(metric, seq) ==
    LET boosted == IF metric < (9 * DecimalUnit) \div 10
                   THEN Uint(metric + DecimalUnit \div 10)
                   ELSE metric
    IN  IF seq <= 1 /\ boosted <= (8 * DecimalUnit) \div 10
        THEN Uint(boosted + (2 * DecimalUnit) \div 10)
        ELSE boosted

\* kickStartMetric with its second boost given up to 0.9*DecimalUnit
kickStartMetricLateSecond(metric, seq) ==
    LET boosted == IF seq <= 2 /\ metric < (9 * DecimalUnit) \div 10
                   THEN Uint(metric + DecimalUnit \div 10)
                   ELSE metric
    IN  IF seq <= 1 /\ boosted <= (9 * DecimalUnit) \div 10
        THEN Uint(boosted + (2 * DecimalUnit) \div 10)
        ELSE boosted

kickStartMetric(metric, seq) ==
    LET boosted == IF seq <= 2 /\ metric < (9 * DecimalUnit) \div 10
                   THEN Uint(metric + DecimalUnit \div 10)
                   ELSE metric
    IN  IF seq <= 1 /\ boosted <= (8 * DecimalUnit) \div 10
        THEN Uint(boosted + (2 * DecimalUnit) \div 10)
        ELSE boosted

eventMetric(orig, seq) == kickStartMetric(eventMetricF[Uint(orig)], seq)

\* ---- top50 / isInTop50 ----------------------------------------------------
Top50 == 50

top50(slice) == IF Len(slice) > Top50 THEN SubSeq(slice, 1, Top50) ELSE slice

isInTop50(number, slice) ==
    LET top == top50(slice)
    IN  \E i \in 1..Len(top) : top[i] = number

\* ---- the pieces of isAllowedToEmit ----------------------------------------
\* the elapsed time without the clamp at 0
passedSinceUnclamped(creationTime, prev) == creationTime - prev

\* e.CreationTime().Time().Sub(prev), clamped at 0
passedSince(creationTime, prev) ==
    IF creationTime - prev < 0 THEN 0 ELSE creationTime - prev

\* time.Duration(ancestor.Metric(passed/piecefunc.DecimalUnit) * metric)
adjustedPassed(passed, metric) == Uint((passed \div DecimalUnit) * metric)

\* the supermajority flag with the restriction left in force
supermajorityRestricting(creator) ==
    IF creator = config.ValidatorID /\ ~isInTop50(creator, sortedIDs)
    THEN FALSE
    ELSE TRUE

\* the supermajority flag: the restriction is computed and then forced back
supermajorityOf(creator) ==
    IF creator = config.ValidatorID /\ ~isInTop50(creator, sortedIDs)
    THEN TRUE
    ELSE TRUE

\* em.stakeRatio[creator]: a missing key reads as 0
stakeRatioOf(creator) ==
    IF creator \in DOMAIN stakeRatio THEN stakeRatio[creator] ELSE 0

\* the stake-tier blending with the tier boundaries taken inclusively
blendIdleInclusive(ratio, passedTimeIdle, passedTime) ==
    LET blended ==
            IF ratio <= (35 * DecimalUnit) \div 100 THEN passedTime
            ELSE IF ratio <= (7 * DecimalUnit) \div 10
                 THEN (passedTimeIdle + passedTime) \div 2
                 ELSE passedTimeIdle
    IN  IF blended > passedTime THEN passedTime ELSE blended

\* the stake-tier blending of passedTimeIdle and the clamp that follows it
blendIdle(ratio, passedTimeIdle, passedTime) ==
    LET blended ==
            IF ratio < (35 * DecimalUnit) \div 100 THEN passedTime
            ELSE IF ratio < (7 * DecimalUnit) \div 10
                 THEN (passedTimeIdle + passedTime) \div 2
                 ELSE passedTimeIdle
    IN  IF blended > passedTime THEN passedTime ELSE blended

\* the emergency check with a non-strict comparison to the self-parent
emergencyNotStrict(gas, selfParent) ==
    /\ gas <= config.EmergencyThreshold
    /\ ~selfParent.nil
    /\ gas <= selfParent.gas

\* "Forbid emitting if not enough power and power is decreasing"
emergency(gas, selfParent) ==
    /\ gas <= config.EmergencyThreshold
    /\ ~selfParent.nil
    /\ gas < selfParent.gas

\* maxBlocks of "Enforce emitting if passed too many time/blocks"
maxBlocksOf(slack) ==
    LET half == Uint(slack \div 2 + 1)
    IN  IF slack > half /\ half < Uint(slack - 5) THEN Uint(slack - 5) ELSE half

\* the liveness override with a strict comparison to maxBlocks
enforceStrictBlocks(passedTime, passedBlocks, metric) ==
    LET maxBlocks == maxBlocksOf(blockMissedSlack)
    IN  \/ passedTime >= intervals.Max
        \/ (passedBlocks >= Uint(maxBlocks * 4) \div 5 /\ metric >= DecimalUnit \div 2)
        \/ passedBlocks > maxBlocks

enforce(passedTime, passedBlocks, metric) ==
    LET maxBlocks == maxBlocksOf(blockMissedSlack)
    IN  \/ passedTime >= intervals.Max
        \/ (passedBlocks >= Uint(maxBlocks * 4) \div 5 /\ metric >= DecimalUnit \div 2)
        \/ passedBlocks >= maxBlocks

\* threshold of "Slow down emitting if power is low"
lowPowerThreshold == Uint(config.NoTxsThreshold + config.EmergencyThreshold) \div 2

\* adjustedEmitInterval := time.Duration(maxT - (maxT-minT)*factor) with
\* factor := float64(gas)/float64(threshold).  For threshold = 0 the branch is
\* entered with gas = 0 only, factor is 0/0 = NaN and the conversion of NaN to
\* an integer is implementation-dependent: nan is the value the build gives.
\* Otherwise the float64 expression is modelled by the exact quotient,
\* truncated toward zero as the conversion does (the value is >= 0).
adjustedEmitInterval(gas, threshold, nan) ==
    IF threshold = 0
    THEN nan
    ELSE (intervals.Max * threshold - (intervals.Max - intervals.Min) * gas)
            \div threshold

\* the rule cascade of the supermajority branch, on the quantities computed
\* before it.  rule names the return statement taken.
\* the cascade with the liveness override ahead of the emergency check
cascadeEnforceFirst(q) ==
    IF enforce(q.passedTime, q.passedBlocks, q.metric)
    THEN [rule |-> "enforce", result |-> TRUE]
    ELSE IF emergency(q.gas, q.selfParent)
    THEN [rule |-> "emergency", result |-> FALSE]
    ELSE [rule |-> "later", result |-> TRUE]

\* the cascade with the liveness override returning false
cascadeEnforceDefers(q) ==
    IF emergency(q.gas, q.selfParent)
    THEN [rule |-> "emergency", result |-> FALSE]
    ELSE IF enforce(q.passedTime, q.passedBlocks, q.metric)
    THEN [rule |-> "enforce", result |-> FALSE]
    ELSE [rule |-> "later", result |-> TRUE]

\* the cascade with the last throttle test made on the blended passedTimeIdle
cascadeBlendedIdle(q) ==
    IF emergency(q.gas, q.selfParent)
    THEN [rule |-> "emergency", result |-> FALSE]
    ELSE IF enforce(q.passedTime, q.passedBlocks, q.metric)
    THEN [rule |-> "enforce", result |-> TRUE]
    ELSE IF q.gas <= lowPowerThreshold /\ q.passedTime < q.adjustedEmitInterval
    THEN [rule |-> "lowPower", result |-> TRUE]
    ELSE IF q.passedTime < intervals.Max /\ q.idle /\ ~q.eTxs
    THEN [rule |-> "noTxs", result |-> TRUE]
    ELSE IF q.passedTime < intervals.Min
    THEN [rule |-> "metricMin", result |-> TRUE]
    ELSE IF q.adjustedPassedTime < intervals.Min /\ ~q.idle
    THEN [rule |-> "metricAdjusted", result |-> TRUE]
    ELSE IF adjustedPassed(q.passedTimeIdle, q.metric) < intervals.Confirming
            /\ ~q.idle /\ ~q.eTxs
    THEN [rule |-> "metricIdle", result |-> TRUE]
    ELSE [rule |-> "fallthrough", result |-> TRUE]

cascade(q) ==
    IF emergency(q.gas, q.selfParent)
    THEN [rule |-> "emergency", result |-> FALSE]
    ELSE IF enforce(q.passedTime, q.passedBlocks, q.metric)
    THEN [rule |-> "enforce", result |-> TRUE]
    ELSE IF q.gas <= lowPowerThreshold /\ q.passedTime < q.adjustedEmitInterval
    THEN [rule |-> "lowPower", result |-> TRUE]
    ELSE IF q.passedTime < intervals.Max /\ q.idle /\ ~q.eTxs
    THEN [rule |-> "noTxs", result |-> TRUE]
    ELSE IF q.passedTime < intervals.Min
    THEN [rule |-> "metricMin", result |-> TRUE]
    ELSE IF q.adjustedPassedTime < intervals.Min /\ ~q.idle
    THEN [rule |-> "metricAdjusted", result |-> TRUE]
    ELSE IF q.adjustedPassedIdleTime < intervals.Confirming /\ ~q.idle /\ ~q.eTxs
    THEN [rule |-> "metricIdle", result |-> TRUE]
    ELSE [rule |-> "fallthrough", result |-> TRUE]

\* the branch taken when supermajority is false
restricted(q) ==
    IF q.passedTime >= intervals.Max
    THEN [rule |-> "restrictedMax", result |-> TRUE]
    ELSE [rule |-> "restrictedDefer", result |-> FALSE]

\* em.isAllowedToEmit(e, eTxs, metric, selfParent) from its second read of the
\* emitter's fields on: passedTime is what its first read gave.  The result
\* holds the quantities it computes and its outcome.  e is given by its
\* creator, creation time and GasPowerLeft().Min(); nan is the build's
\* int64(NaN).
isAllowedToEmitAfter(passedTime, creator, creationTime, gas, eTxs, metric, selfParent, nan) ==
    LET passedTimeIdle == passedSince(creationTime, prevIdleTime)
        q == [creator |-> creator,
              creationTime |-> creationTime,
              gas |-> gas,
              eTxs |-> eTxs,
              metric |-> metric,
              selfParent |-> selfParent,
              idle |-> isIdle,
              passedTime |-> passedTime,
              rawPassedTimeIdle |-> passedTimeIdle,
              passedTimeIdle |->
                  blendIdle(stakeRatioOf(creator), passedTimeIdle, passedTime),
              adjustedPassedTime |-> adjustedPassed(passedTime, metric),
              adjustedPassedIdleTime |-> adjustedPassed(passedTimeIdle, metric),
              passedBlocks |-> Uint(latestBlockIndex - prevEmittedAtBlock),
              supermajority |-> supermajorityOf(creator),
              maxBlocks |-> maxBlocksOf(blockMissedSlack),
              adjustedEmitInterval |->
                  IF gas <= lowPowerThreshold
                  THEN adjustedEmitInterval(gas, lowPowerThreshold, nan)
                  ELSE 0]
        out == IF q.supermajority THEN cascade(q) ELSE restricted(q)
    IN  q @@ out

\* em.isAllowedToEmit(e, eTxs, metric, selfParent) on one state of the emitter
isAllowedToEmit(creator, creationTime, gas, eTxs, metric, selfParent, nan) ==
    isAllowedToEmitAfter(passedSince(creationTime, prevEmittedAtTime), creator,
                         creationTime, gas, eTxs, metric, selfParent, nan)

\* the values int64(NaN) can take in a call: the conversion happens only when
\* the low-power interval is computed with a threshold of 0
NaNOutcomes(gas) ==
    IF gas <= lowPowerThreshold /\ lowPowerThreshold = 0
    THEN NaNDurations
    ELSE {0}

\* ---- the state machine ----------------------------------------------------
NoCall ==
    [creator |-> 0, creationTime |-> 0, gas |-> 0, eTxs |-> FALSE, metric |-> 0,
     selfParent |-> [nil |-> TRUE, gas |-> 0], idle |-> FALSE,
     passedTime |-> 0, rawPassedTimeIdle |-> 0, passedTimeIdle |-> 0,
     adjustedPassedTime |-> 0, adjustedPassedIdleTime |-> 0, passedBlocks |-> 0,
     supermajority |-> TRUE, maxBlocks |-> 0,
     adjustedEmitInterval |-> 0, rule |-> "none", result |-> FALSE]

NoSnap == [creationTime |-> 0, passedTime |-> 0]

NoRecheck == [pc |-> "idle", idle |-> FALSE, now |-> 0]

NoMetricCall ==
    [called |-> FALSE, median |-> 0, cur |-> 0, upd |-> 0, validatorIdx |-> 0,
     metric |-> 0]

NoEventCall == [called |-> FALSE, orig |-> 0, seq |-> 0, metric |-> 0]

NoKeyCall == [called |-> FALSE, n |-> 0, panic |-> FALSE, D |-> 0]

NoChannel == [made |-> FALSE, closed |-> FALSE, buf |-> <<>>]

NoWorker == [pc |-> "none", evt |-> 0, tokens |-> <<>>]

\* no call of FakeKey made
KeyAtRest == kret = NoKeyCall

\* the listener as NewEventListener returns it
ListenerAtRest ==
    /\ enabled = FALSE
    /\ conn = "nil"
    /\ eventChannel = NoChannel
    /\ sub = "nil"
    /\ startPc = "idle"
    /\ closePc = "idle"
    /\ closeCalls = 0
    /\ watcherPc = "none"
    /\ worker = NoWorker
    /\ panicked = FALSE
    /\ sent = <<>>
    /\ validated = <<>>
    /\ queue = <<>>
    /\ chanCloses = 0
    /\ sentAfterClose = FALSE

\* the metric functions at rest, for the other specifications
MetricsAtRest ==
    /\ validators = <<1, 1>>
    /\ scalarUpdMetricF = [x \in PieceArgs |-> DecimalUnit]
    /\ mret = NoMetricCall
    /\ eventMetricF = [x \in EventArgs |-> DecimalUnit]
    /\ eret = NoEventCall

Init ==
    /\ prevEmittedAtTime \in NowTimes
    /\ prevIdleTime \in NowTimes
    /\ prevEmittedAtBlock = 0
    /\ latestBlockIndex = 0
    /\ sortedIDs = [i \in 1..NumValidators |-> i]
    /\ \E c \in EmitterConfigs :
          /\ stakeRatio = c.ratios
          /\ config = [ValidatorID |-> NumValidators,
                       EmergencyThreshold |-> c.thresholds.EmergencyThreshold,
                       NoTxsThreshold |-> c.thresholds.NoTxsThreshold]
          /\ blockMissedSlack = c.slack
    /\ intervals \in IntervalConfigs
    /\ isIdle \in BOOLEAN
    /\ ret = NoCall
    /\ worldLock = "free"
    /\ emitPc = "idle"
    /\ snap = NoSnap
    /\ recheck = NoRecheck
    /\ validators = <<1, 1>>
    /\ scalarUpdMetricF = [x \in PieceArgs |-> DecimalUnit]
    /\ mret = NoMetricCall
    /\ eventMetricF = [x \in EventArgs |-> DecimalUnit]
    /\ eret = NoEventCall
    /\ KeyAtRest
    /\ ListenerAtRest

\* the caller of isAllowedToEmit takes the world lock before it builds and
\* judges the candidate event
EmitLock ==
    /\ emitPc = "idle"
    /\ worldLock = "free"
    /\ worldLock' = "emitter"
    /\ emitPc' = "locked"
    /\ UNCHANGED <<emitterState, sortedIDs, config, intervals, blockMissedSlack,
                   latestBlockIndex, isIdle, ret, snap, recheck,
                   metricVars, sideVars>>

\* isAllowedToEmit reads em.prevEmittedAtTime
ReadEmittedAt ==
    /\ emitPc = "locked"
    /\ \E creationTime \in Times :
          snap' = [creationTime |-> creationTime,
                   passedTime |-> passedSince(creationTime, prevEmittedAtTime)]
    /\ emitPc' = "read"
    /\ UNCHANGED <<emitterState, sortedIDs, config, intervals, blockMissedSlack,
                   latestBlockIndex, isIdle, ret, worldLock, recheck,
                   metricVars, sideVars>>

\* isAllowedToEmit recording the candidate's creation time as the idle time
IsAllowedToEmitTouchingIdle ==
    /\ emitPc = "read"
    /\ \E creator \in Creators, gas \in GasValues,
          eTxs \in BOOLEAN, metric \in Metrics, selfParent \in SelfParents :
          \E nan \in NaNOutcomes(gas) :
             ret' = isAllowedToEmitAfter(snap.passedTime, creator,
                                         snap.creationTime, gas, eTxs, metric,
                                         selfParent, nan)
    /\ prevIdleTime' = snap.creationTime
    /\ emitPc' = "returned"
    /\ UNCHANGED <<prevEmittedAtTime, prevEmittedAtBlock, stakeRatio, sortedIDs,
                   config, intervals, blockMissedSlack,
                   latestBlockIndex, isIdle, worldLock, snap, recheck,
                   metricVars, sideVars>>

\* isAllowedToEmit reads em.prevIdleTime and the rest, and returns
IsAllowedToEmit ==
    /\ emitPc = "read"
    /\ \E creator \in Creators, gas \in GasValues,
          eTxs \in BOOLEAN, metric \in Metrics, selfParent \in SelfParents :
          \E nan \in NaNOutcomes(gas) :
             ret' = isAllowedToEmitAfter(snap.passedTime, creator,
                                         snap.creationTime, gas, eTxs, metric,
                                         selfParent, nan)
    /\ emitPc' = "returned"
    /\ UNCHANGED <<emitterState, sortedIDs, config, intervals, blockMissedSlack,
                   latestBlockIndex, isIdle, worldLock, snap, recheck,
                   metricVars, sideVars>>

\* the caller emits the event it was allowed to emit: the emission-commit path
\* records the time and the block of the emission, and the lock is released
OnEmitted ==
    /\ emitPc = "returned"
    /\ ret.result
    /\ \E now \in NowTimes : prevEmittedAtTime' = now
    /\ prevEmittedAtBlock' = latestBlockIndex
    /\ ret' = NoCall
    /\ snap' = NoSnap
    /\ emitPc' = "idle"
    /\ worldLock' = "free"
    /\ UNCHANGED <<prevIdleTime, stakeRatio, sortedIDs, config, intervals,
                   blockMissedSlack, latestBlockIndex, isIdle, recheck,
                   metricVars, sideVars>>

\* the caller drops the event it was not allowed to emit, and releases the lock
OnDeferred ==
    /\ emitPc = "returned"
    /\ ~ret.result
    /\ ret' = NoCall
    /\ snap' = NoSnap
    /\ emitPc' = "idle"
    /\ worldLock' = "free"
    /\ UNCHANGED <<emitterState, sortedIDs, config, intervals, blockMissedSlack,
                   latestBlockIndex, isIdle, recheck,
                   metricVars, sideVars>>

\* em.recheckIdleTime() going on without waiting for the lock to be free
RecheckLockNoWait ==
    /\ recheck.pc = "idle"
    /\ worldLock' = "recheck"
    /\ recheck' = [pc |-> "locked", idle |-> FALSE, now |-> 0]
    /\ UNCHANGED <<emitterState, sortedIDs, config, intervals, blockMissedSlack,
                   latestBlockIndex, isIdle, ret, emitPc, snap,
                   metricVars, sideVars>>

\* em.recheckIdleTime(): em.world.Lock()
RecheckLock ==
    /\ recheck.pc = "idle"
    /\ worldLock = "free"
    /\ worldLock' = "recheck"
    /\ recheck' = [pc |-> "locked", idle |-> FALSE, now |-> 0]
    /\ UNCHANGED <<emitterState, sortedIDs, config, intervals, blockMissedSlack,
                   latestBlockIndex, isIdle, ret, emitPc, snap,
                   metricVars, sideVars>>

\* the body of em.recheckIdleTime() without its test of em.idle()
RecheckIdleTimeAlways ==
    /\ recheck.pc = "locked"
    /\ \E now \in NowTimes :
          /\ prevIdleTime' = now
          /\ recheck' = [pc |-> "deferred", idle |-> isIdle, now |-> now]
    /\ UNCHANGED <<prevEmittedAtTime, prevEmittedAtBlock, stakeRatio, sortedIDs,
                   config, intervals, blockMissedSlack, latestBlockIndex, isIdle,
                   ret, worldLock, emitPc, snap,
                   metricVars, sideVars>>

\* em.recheckIdleTime(): the body, between Lock and the deferred Unlock
RecheckIdleTime ==
    /\ recheck.pc = "locked"
    /\ \E now \in NowTimes :
          /\ prevIdleTime' = IF isIdle THEN now ELSE prevIdleTime
          /\ recheck' = [pc |-> "deferred", idle |-> isIdle, now |-> now]
    /\ UNCHANGED <<prevEmittedAtTime, prevEmittedAtBlock, stakeRatio, sortedIDs,
                   config, intervals, blockMissedSlack, latestBlockIndex, isIdle,
                   ret, worldLock, emitPc, snap,
                   metricVars, sideVars>>

\* em.recheckIdleTime(): the deferred em.world.Unlock() runs on return
RecheckUnlock ==
    /\ recheck.pc = "deferred"
    /\ worldLock' = "free"
    /\ recheck' = NoRecheck
    /\ UNCHANGED <<emitterState, sortedIDs, config, intervals, blockMissedSlack,
                   latestBlockIndex, isIdle, ret, emitPc, snap,
                   metricVars, sideVars>>

\* the consensus engine finalises a block
NewBlock ==
    /\ ret.rule = "none"
    /\ latestBlockIndex < MaxBlock
    /\ latestBlockIndex' = latestBlockIndex + 1
    /\ UNCHANGED <<emitterState, sortedIDs, config, intervals, blockMissedSlack,
                   isIdle, ret, threadVars,
                   metricVars, sideVars>>

\* transactions are originated or confirmed: em.idle() changes
SetIdle ==
    /\ ret.rule = "none"
    /\ isIdle' = ~isIdle
    /\ UNCHANGED <<emitterState, sortedIDs, config, intervals, blockMissedSlack,
                   latestBlockIndex, ret, threadVars,
                   metricVars, sideVars>>

Next ==
    \/ EmitLock
    \/ ReadEmittedAt
    \/ IsAllowedToEmit
    \/ OnEmitted
    \/ OnDeferred
    \/ RecheckLock
    \/ RecheckIdleTime
    \/ RecheckUnlock
    \/ NewBlock
    \/ SetIdle

Spec == Init /\ [][Next]_vars

\* ---- the metric functions on bounded inputs -------------------------------
emitterVars == <<prevEmittedAtTime, prevIdleTime, prevEmittedAtBlock, stakeRatio,
                 sortedIDs, config, intervals, blockMissedSlack,
                 latestBlockIndex, isIdle, ret, threadVars>>

\* the emitter at rest, for the specifications of the pure functions
EmitterAtRest ==
    /\ prevEmittedAtTime = 0
    /\ prevIdleTime = 0
    /\ prevEmittedAtBlock = 0
    /\ latestBlockIndex = 0
    /\ stakeRatio = <<>>
    /\ sortedIDs = [i \in 1..NumValidators |-> i]
    /\ config = [ValidatorID |-> NumValidators, EmergencyThreshold |-> 0,
                 NoTxsThreshold |-> 0]
    /\ intervals \in IntervalConfigs
    /\ blockMissedSlack = 2
    /\ isIdle = FALSE
    /\ ret = NoCall
    /\ worldLock = "free"
    /\ emitPc = "idle"
    /\ snap = NoSnap
    /\ recheck = NoRecheck

InitMetric ==
    /\ EmitterAtRest
    /\ validators \in WeightSets
    /\ scalarUpdMetricF \in PieceFuncs
    /\ mret = NoMetricCall
    /\ eventMetricF = [x \in EventArgs |-> DecimalUnit]
    /\ eret = NoEventCall
    /\ KeyAtRest
    /\ ListenerAtRest

\* a call of updMetric
UpdMetric ==
    /\ ~mret.called
    /\ \E median \in Seqs, cur \in Seqs, upd \in Seqs,
          validatorIdx \in 0..(Len(validators) - 1) :
          mret' = [called |-> TRUE, median |-> median, cur |-> cur, upd |-> upd,
                   validatorIdx |-> validatorIdx,
                   metric |-> updMetric(median, cur, upd, validatorIdx)]
    /\ UNCHANGED <<emitterVars, sideVars, validators, scalarUpdMetricF, eventMetricF, eret>>

\* the caller takes the result
MetricReturn ==
    /\ mret.called
    /\ mret' = NoMetricCall
    /\ UNCHANGED <<emitterVars, sideVars, validators, scalarUpdMetricF, eventMetricF, eret>>

NextMetric ==
    \/ UpdMetric
    \/ MetricReturn

SpecMetric == InitMetric /\ [][NextMetric]_vars

\* ---- eventMetric on bounded inputs ----------------------------------------
InitEvent ==
    /\ EmitterAtRest
    /\ validators = <<1, 1>>
    /\ scalarUpdMetricF = [x \in PieceArgs |-> DecimalUnit]
    /\ mret = NoMetricCall
    /\ eventMetricF \in EventPieceFuncs
    /\ eret = NoEventCall
    /\ KeyAtRest
    /\ ListenerAtRest

\* a call of eventMetric
EventMetric ==
    /\ ~eret.called
    /\ \E orig \in EventArgs, seq \in Seqs :
          eret' = [called |-> TRUE, orig |-> orig, seq |-> seq,
                   metric |-> eventMetric(orig, seq)]
    /\ UNCHANGED <<emitterVars, sideVars, validators, scalarUpdMetricF, mret, eventMetricF>>

\* the caller takes the result
EventReturn ==
    /\ eret.called
    /\ eret' = NoEventCall
    /\ UNCHANGED <<emitterVars, sideVars, validators, scalarUpdMetricF, mret, eventMetricF>>

NextEvent ==
    \/ EventMetric
    \/ EventReturn

SpecEvent == InitEvent /\ [][NextEvent]_vars

\* ---- FakeKey ---------------------------------------------------------------
\* len(keys): the table of FakeKey has 400 entries
NumKeys == 400

\* the table: entry i, counted from 0, is the (i+1)-th of the 400 distinct
\* hexadecimal literals, each a valid secp256k1 secret
keys == [i \in 0..(NumKeys - 1) |-> i + 1]

\* the arguments of the calls of FakeKey
KeyNums == 0..(NumKeys + MaxBeyond)

\* FakeKey with the last entry of the table out of range
FakeKeyExclusive(n) ==
    IF n = 0 \/ n >= NumKeys
    THEN [panic |-> TRUE, D |-> 0]
    ELSE [panic |-> FALSE, D |-> keys[n - 1]]

\* FakeKey(n): a panic, or the private key whose secret D is keys[n-1]
FakeKey(n) ==
    IF n = 0 \/ n > NumKeys
    THEN [panic |-> TRUE, D |-> 0]
    ELSE [panic |-> FALSE, D |-> keys[n - 1]]

InitKey ==
    /\ EmitterAtRest
    /\ MetricsAtRest
    /\ ListenerAtRest
    /\ KeyAtRest

\* a call of FakeKey; a panic ends the process
FakeKeyCall ==
    /\ ~kret.called
    /\ \E n \in KeyNums :
          kret' = [called |-> TRUE, n |-> n] @@ FakeKey(n)
    /\ UNCHANGED <<emitterVars, metricVars, listenerVars>>

\* the caller takes the key
FakeKeyReturn ==
    /\ kret.called
    /\ ~kret.panic
    /\ kret' = NoKeyCall
    /\ UNCHANGED <<emitterVars, metricVars, listenerVars>>

NextKey ==
    \/ FakeKeyCall
    \/ FakeKeyReturn

SpecKey == InitKey /\ [][NextKey]_vars

\* ---- EventListener ----------------------------------------------------------
\* capacity of e.eventChannel
backlog == 5

\* evt.HashId of the events the subscription delivers
HashIds == 1..MaxHash

\* e.verifier.validateHashEvent(evt): the currency codes of the tokens it
\* returns; the event of hash id h has h - 1 tokens
validateHashEvent(evt) == [i \in 1..(evt - 1) |-> i]

InitListener ==
    /\ EmitterAtRest
    /\ MetricsAtRest
    /\ KeyAtRest
    /\ ListenerAtRest

\* Start: e.enabled = true
StartEnable ==
    /\ ~panicked
    /\ startPc = "idle"
    /\ enabled' = TRUE
    /\ startPc' = "enabled"
    /\ UNCHANGED <<conn, eventChannel, sub, closePc, closeCalls, watcherPc, worker,
                   panicked, sent, validated, queue, chanCloses, sentAfterClose,
                   emitterVars, metricVars, keyVars>>

\* Start: e.initializeEventSystem(), and the panic on its error; the error is
\* the one of Attach, before e.conn is set, or the one of NewBlockStorage,
\* after it
StartInitialize ==
    /\ ~panicked
    /\ startPc = "enabled"
    /\ \E ok \in BOOLEAN :
          IF ok
          THEN conn' = "open" /\ startPc' = "initialized" /\ panicked' = FALSE
          ELSE panicked' = TRUE /\ conn' \in {"nil", "open"} /\ UNCHANGED startPc
    /\ UNCHANGED <<enabled, eventChannel, sub, closePc, closeCalls, watcherPc,
                   worker, sent, validated, queue, chanCloses, sentAfterClose,
                   emitterVars, metricVars, keyVars>>

\* Start: the channel is made and the worker is started on it
StartWorkers ==
    /\ ~panicked
    /\ startPc = "initialized"
    /\ eventChannel' = [made |-> TRUE, closed |-> FALSE, buf |-> <<>>]
    /\ worker' = [pc |-> "range", evt |-> 0, tokens |-> <<>>]
    /\ startPc' = "workers"
    /\ UNCHANGED <<enabled, conn, sub, closePc, closeCalls, watcherPc, panicked,
                   sent, validated, queue, chanCloses, sentAfterClose,
                   emitterVars, metricVars, keyVars>>

\* Start: the goroutine that watches new events is started, and Start returns
StartWatcher ==
    /\ ~panicked
    /\ startPc = "workers"
    /\ watcherPc' = "spawned"
    /\ startPc' = "done"
    /\ UNCHANGED <<enabled, conn, eventChannel, sub, closePc, closeCalls, worker,
                   panicked, sent, validated, queue, chanCloses, sentAfterClose,
                   emitterVars, metricVars, keyVars>>

\* the watcher: e.sub, err = e.bs.WatchNewHash(...), and the panic on its error
WatchNewHash ==
    /\ ~panicked
    /\ watcherPc = "spawned"
    /\ \E ok \in BOOLEAN :
          IF ok
          THEN sub' = "active" /\ watcherPc' = "select" /\ panicked' = FALSE
          ELSE panicked' = TRUE /\ UNCHANGED <<sub, watcherPc>>
    /\ UNCHANGED <<enabled, conn, eventChannel, startPc, closePc, closeCalls,
                   worker, sent, validated, queue, chanCloses, sentAfterClose,
                   emitterVars, metricVars, keyVars>>

\* the watcher: the select receives from e.sub.Err(), which is closed once the
\* subscription is unsubscribed; its break leaves the select only
WatcherSelect ==
    /\ ~panicked
    /\ watcherPc = "select"
    /\ sub = "unsubscribed"
    /\ watcherPc' = "sleep"
    /\ UNCHANGED <<enabled, conn, eventChannel, sub, startPc, closePc, closeCalls,
                   worker, panicked, sent, validated, queue, chanCloses,
                   sentAfterClose, emitterVars, metricVars, keyVars>>

\* the watcher: time.Sleep(time.Second), and the loop goes round
WatcherSleep ==
    /\ ~panicked
    /\ watcherPc = "sleep"
    /\ watcherPc' = "select"
    /\ UNCHANGED <<enabled, conn, eventChannel, sub, startPc, closePc, closeCalls,
                   worker, panicked, sent, validated, queue, chanCloses,
                   sentAfterClose, emitterVars, metricVars, keyVars>>

\* the subscription sends a new event on the channel it was given; a send on
\* a closed channel panics
Produce ==
    /\ ~panicked
    /\ sub = "active"
    /\ eventChannel.made
    /\ Len(sent) < MaxSent
    /\ Len(eventChannel.buf) < backlog
    /\ \E h \in HashIds :
          IF eventChannel.closed
          THEN /\ panicked' = TRUE
               /\ sentAfterClose' = TRUE
               /\ UNCHANGED <<eventChannel, sent>>
          ELSE /\ eventChannel' =
                     [eventChannel EXCEPT !.buf = Append(eventChannel.buf, h)]
               /\ sent' = Append(sent, h)
               /\ UNCHANGED <<panicked, sentAfterClose>>
    /\ UNCHANGED <<enabled, conn, sub, startPc, closePc, closeCalls, watcherPc,
                   worker, validated, queue, chanCloses,
                   emitterVars, metricVars, keyVars>>

\* the worker: the range takes the next event and validateHashEvent is called
WorkerReceive ==
    /\ ~panicked
    /\ worker.pc = "range"
    /\ eventChannel.buf # <<>>
    /\ LET evt == Head(eventChannel.buf)
           tokens == validateHashEvent(evt)
       IN  /\ eventChannel' = [eventChannel EXCEPT !.buf = Tail(eventChannel.buf)]
           /\ validated' = Append(validated, evt)
           /\ worker' = IF tokens = <<>>
                        THEN [pc |-> "range", evt |-> 0, tokens |-> <<>>]
                        ELSE [pc |-> "tokens", evt |-> evt, tokens |-> tokens]
    /\ UNCHANGED <<enabled, conn, sub, startPc, closePc, closeCalls, watcherPc,
                   panicked, sent, queue, chanCloses, sentAfterClose,
                   emitterVars, metricVars, keyVars>>

\* the worker: e.voter.AddToQueue(evt.HashId, token.currencyCode) for the next
\* token
WorkerAddToQueue ==
    /\ ~panicked
    /\ worker.pc = "tokens"
    /\ queue' = Append(queue, <<worker.evt, Head(worker.tokens)>>)
    /\ worker' = IF Tail(worker.tokens) = <<>>
                 THEN [pc |-> "range", evt |-> 0, tokens |-> <<>>]
                 ELSE [worker EXCEPT !.tokens = Tail(worker.tokens)]
    /\ UNCHANGED <<enabled, conn, eventChannel, sub, startPc, closePc, closeCalls,
                   watcherPc, panicked, sent, validated, chanCloses,
                   sentAfterClose, emitterVars, metricVars, keyVars>>

\* the worker leaving its range although events are left in the closed channel
WorkerExitOnClose ==
    /\ ~panicked
    /\ worker.pc = "range"
    /\ eventChannel.closed
    /\ worker' = [pc |-> "done", evt |-> 0, tokens |-> <<>>]
    /\ UNCHANGED <<enabled, conn, eventChannel, sub, startPc, closePc, closeCalls,
                   watcherPc, panicked, sent, validated, queue, chanCloses,
                   sentAfterClose, emitterVars, metricVars, keyVars>>

\* the worker: the range ends when the channel is closed and empty
WorkerExit ==
    /\ ~panicked
    /\ worker.pc = "range"
    /\ eventChannel.closed
    /\ eventChannel.buf = <<>>
    /\ worker' = [pc |-> "done", evt |-> 0, tokens |-> <<>>]
    /\ UNCHANGED <<enabled, conn, eventChannel, sub, startPc, closePc, closeCalls,
                   watcherPc, panicked, sent, validated, queue, chanCloses,
                   sentAfterClose, emitterVars, metricVars, keyVars>>

\* Close: the test of e.enabled
CloseCall ==
    /\ ~panicked
    /\ closePc = "idle"
    /\ closeCalls < MaxCloseCalls
    /\ closeCalls' = closeCalls + 1
    /\ closePc' = IF enabled THEN "unsubscribe" ELSE "idle"
    /\ UNCHANGED <<enabled, conn, eventChannel, sub, startPc, watcherPc, worker,
                   panicked, sent, validated, queue, chanCloses, sentAfterClose,
                   emitterVars, metricVars, keyVars>>

\* Close: e.sub.Unsubscribe(); on a nil e.sub the call panics
CloseUnsubscribe ==
    /\ ~panicked
    /\ closePc = "unsubscribe"
    /\ IF sub = "nil"
       THEN panicked' = TRUE /\ UNCHANGED <<sub, closePc>>
       ELSE sub' = "unsubscribed" /\ closePc' = "closeChannel"
            /\ panicked' = FALSE
    /\ UNCHANGED <<enabled, conn, eventChannel, startPc, closeCalls, watcherPc,
                   worker, sent, validated, queue, chanCloses, sentAfterClose,
                   emitterVars, metricVars, keyVars>>

\* Close: close(e.eventChannel); closing a nil or a closed channel panics
CloseChannel ==
    /\ ~panicked
    /\ closePc = "closeChannel"
    /\ chanCloses' = chanCloses + 1
    /\ IF ~eventChannel.made \/ eventChannel.closed
       THEN panicked' = TRUE /\ UNCHANGED <<eventChannel, closePc>>
       ELSE /\ eventChannel' = [eventChannel EXCEPT !.closed = TRUE]
            /\ closePc' = "closeConn"
            /\ panicked' = FALSE
    /\ UNCHANGED <<enabled, conn, sub, startPc, closeCalls, watcherPc, worker,
                   sent, validated, queue, sentAfterClose,
                   emitterVars, metricVars, keyVars>>

\* Close: e.conn.Close(), and Close returns
CloseConn ==
    /\ ~panicked
    /\ closePc = "closeConn"
    /\ conn' = "closed"
    /\ closePc' = "idle"
    /\ UNCHANGED <<enabled, eventChannel, sub, startPc, closeCalls, watcherPc,
                   worker, panicked, sent, validated, queue, chanCloses,
                   sentAfterClose, emitterVars, metricVars, keyVars>>

StartStep == StartEnable \/ StartInitialize \/ StartWorkers \/ StartWatcher

WatcherStep == WatchNewHash \/ WatcherSelect \/ WatcherSleep

WorkerStep == WorkerReceive \/ WorkerAddToQueue \/ WorkerExit

CloseStep == CloseUnsubscribe \/ CloseChannel \/ CloseConn

NextListener ==
    \/ StartEnable
    \/ StartInitialize
    \/ StartWorkers
    \/ StartWatcher
    \/ WatchNewHash
    \/ WatcherSelect
    \/ WatcherSleep
    \/ Produce
    \/ WorkerReceive
    \/ WorkerAddToQueue
    \/ WorkerExit
    \/ CloseCall
    \/ CloseUnsubscribe
    \/ CloseChannel
    \/ CloseConn

SpecListener == InitListener /\ [][NextListener]_vars

\* the goroutines and the threads in Start and Close keep being scheduled;
\* calls of Close and new events come as the environment pleases
SpecListenerFair ==
    /\ SpecListener
    /\ WF_vars(StartStep)
    /\ WF_vars(WatcherStep)
    /\ WF_vars(WorkerStep)
    /\ WF_vars(CloseStep)

\* ---- the claims about isAllowedToEmit (checked under Spec) -----------------
\* a call of isAllowedToEmit has returned and ret holds it
Called == ret.rule # "none"

\* the emergency condition of step 3, as the claims state it
ClaimEmergency ==
    /\ ret.gas <= config.EmergencyThreshold
    /\ ~ret.selfParent.nil
    /\ ret.gas < ret.selfParent.gas

\* a block-based liveness condition of step 4, as the claims state it
ClaimBlocksOverride ==
    LET maxBlocks == maxBlocksOf(blockMissedSlack)
    IN  \/ ret.passedBlocks >= maxBlocks
        \/ (5 * ret.passedBlocks >= 4 * maxBlocks /\ ret.metric >= DecimalUnit \div 2)

\* a liveness-override condition of step 4
ClaimEnforce ==
    LET maxBlocks == maxBlocksOf(blockMissedSlack)
    IN  \/ ret.passedTime >= intervals.Max
        \/ ret.passedBlocks >= maxBlocks
        \/ (ret.passedBlocks >= Uint(maxBlocks * 4) \div 5
                /\ ret.metric >= DecimalUnit \div 2)

\* steps 3 and 4 do not decide the call
ClaimNotDecidedBy4 == ~ClaimEmergency /\ ~ClaimEnforce

\* steps 3, 4 and 5 do not decide the call: the gas power is above the
\* low-power threshold
ClaimNotDecidedBy5 ==
    /\ ClaimNotDecidedBy4
    /\ ret.gas > lowPowerThreshold

\* the condition of the no-work slowdown of step 6
ClaimNoWork == ret.passedTime < intervals.Max /\ ret.idle /\ ~ret.eTxs

\* one of the three defer conditions of step 7
ClaimThrottled ==
    \/ ret.passedTime < intervals.Min
    \/ (ret.adjustedPassedTime < intervals.Min /\ ~ret.idle)
    \/ (ret.adjustedPassedIdleTime < intervals.Confirming /\ ~ret.idle /\ ~ret.eTxs)

\* C1: a call with passedTime >= intervals.Max in which the emergency
\* condition does not hold returns true, whatever the metric, the gas power,
\* the idle flag, the pending-transaction flag, passedBlocks and the stake
\* ratio are.
C1_LivenessAtMax ==
    (Called /\ ret.passedTime >= intervals.Max /\ ~ClaimEmergency) => ret.result

\* C1 witness: such a call, with low gas power, idle, no transactions and a
\* low metric, returned true
C1_Witness ==
    /\ Called
    /\ ret.passedTime >= intervals.Max
    /\ ~ClaimEmergency
    /\ ret.gas <= lowPowerThreshold
    /\ ret.idle
    /\ ~ret.eTxs
    /\ ret.metric = DecimalUnit \div 10
    /\ ret.passedBlocks = 0
    /\ ret.result

\* C2: whenever the emergency condition holds, isAllowedToEmit returns false,
\* also when a liveness-override condition of step 4 holds at the same time.
C2_EmergencyPrecedence ==
    (Called /\ ClaimEmergency) => ~ret.result

\* C2 witness: the emergency condition held together with both liveness
\* conditions and the call returned false
C2_Witness ==
    /\ Called
    /\ ClaimEmergency
    /\ ret.passedTime >= intervals.Max
    /\ ret.passedBlocks >= maxBlocksOf(blockMissedSlack)
    /\ ~ret.result

\* C3: when the emergency condition does not hold, no rule evaluated before
\* step 5 (the emergency check, the liveness override) returns false.
C3_OnlyEmergencyDefersEarly ==
    (Called /\ ~ClaimEmergency) =>
        ~(ret.rule \in {"emergency", "enforce"} /\ ~ret.result)

\* C3 witness: a call without the emergency condition, with gas power at or
\* below EmergencyThreshold, was decided by the liveness override
C3_Witness ==
    /\ Called
    /\ ~ClaimEmergency
    /\ ret.gas <= config.EmergencyThreshold
    /\ ret.rule = "enforce"
    /\ ret.result

\* C4: when the emergency condition does not hold and passedBlocks >=
\* maxBlocks, or passedBlocks >= 4/5 of maxBlocks and metric >= 0.5 *
\* DecimalUnit, the call is decided by the liveness override and returns true,
\* even if the conditions of steps 5-7 hold.
C4_BlocksOverride ==
    (Called /\ ~ClaimEmergency /\ ClaimBlocksOverride) =>
        (ret.result /\ ret.rule = "enforce")

\* C4 witness: passedTime = intervals.Max - 1ns, idle, no transactions,
\* metric = 0.1 * DecimalUnit, passedBlocks >= maxBlocks, and the call
\* returned true
C4_Witness ==
    /\ Called
    /\ ~ClaimEmergency
    /\ ret.passedBlocks >= maxBlocksOf(blockMissedSlack)
    /\ ret.passedTime = intervals.Max - 1
    /\ ret.idle
    /\ ~ret.eTxs
    /\ ret.metric = DecimalUnit \div 10
    /\ ret.result

\* C5: when steps 3, 4 and 5 do not decide the call and passedTime <
\* intervals.Max, the controller is idle and the candidate carries no
\* transactions, the decision is defer: emission is not permitted.
C5_NoWorkDefers ==
    (Called /\ ClaimNotDecidedBy5 /\ ClaimNoWork) => ~ret.result

\* C6: when steps 3-6 do not decide the call, isAllowedToEmit defers if one of
\* the three throttle conditions holds and emits exactly when none holds.
C6_ThrottleDefers ==
    (Called /\ ClaimNotDecidedBy5 /\ ~ClaimNoWork) =>
        (ret.result <=> ~ClaimThrottled)

\* C7: when steps 3 and 4 do not decide the call and the gas power is at or
\* below the low-power threshold, emission is permitted only if passedTime >=
\* the interpolated emission interval (stated for a positive threshold, where
\* the interpolation is defined).
C7_LowPowerDefers ==
    (Called /\ ClaimNotDecidedBy4 /\ ret.gas <= lowPowerThreshold
        /\ lowPowerThreshold > 0) =>
        (ret.result => ret.passedTime >= ret.adjustedEmitInterval)

\* the interpolated interval of a call lies in [Min, Max], is Max at zero gas
\* power, Min at the threshold, and no lower than that of a call with more gas
IntervalAsClaimed ==
    /\ intervals.Min <= ret.adjustedEmitInterval
    /\ ret.adjustedEmitInterval <= intervals.Max
    /\ (ret.gas = 0 => ret.adjustedEmitInterval = intervals.Max)
    /\ (ret.gas = lowPowerThreshold => ret.adjustedEmitInterval = intervals.Min)
    /\ \A g \in GasValues, nan \in NaNDurations :
          (ret.gas <= g /\ g <= lowPowerThreshold) =>
              adjustedEmitInterval(g, lowPowerThreshold, nan)
                  <= ret.adjustedEmitInterval

\* C8: the interpolated low-power emission interval lies in [intervals.Min,
\* intervals.Max], equals intervals.Max at zero remaining gas power, equals
\* intervals.Min when gas power equals the threshold, and is non-increasing in
\* the remaining gas power, including the case threshold = 0.
C8_IntervalInRange ==
    (Called /\ ret.gas <= lowPowerThreshold) => IntervalAsClaimed

\* ---- the claims about updMetric (checked under SpecMetric) -----------------
\* C9: updMetric returns exactly 0 for every input with upd <= median or
\* upd <= cur, for any validator index and weights.
C9_ZeroRegion ==
    (mret.called /\ (mret.upd <= mret.median \/ mret.upd <= mret.cur)) =>
        mret.metric = 0

\* C9 witness: a call with upd = median, above cur, where the piece function
\* is positive at 0 and the result is 0
C9_Witness ==
    /\ mret.called
    /\ mret.upd = mret.median
    /\ mret.upd > mret.cur
    /\ scalarUpdMetricF[0] > 0
    /\ mret.metric = 0

\* C10: for fixed median, cur, validatorIdx and validator set, and a monotone
\* piece function, updMetric is non-decreasing in upd: no smaller upd gives a
\* larger metric than the call made.
C10_MonotoneInUpd ==
    mret.called =>
        \A upd \in Seqs :
            upd <= mret.upd =>
                updMetric(mret.median, mret.cur, upd, mret.validatorIdx)
                    <= mret.metric

\* C10 witness: a call in the marginal branch median < cur < upd whose result
\* is positive and exceeds the positive result at a smaller upd above cur
C10_Witness ==
    /\ mret.called
    /\ mret.median < mret.cur
    /\ mret.cur + 1 < mret.upd
    /\ updMetric(mret.median, mret.cur, mret.cur + 1, mret.validatorIdx) > 0
    /\ updMetric(mret.median, mret.cur, mret.cur + 1, mret.validatorIdx)
          < mret.metric

\* the weights below the weight of the validator of the call that a validator
\* set of the same total weight can give to that validator
SmallerWeights ==
    {w \in 1..MaxWeight :
        /\ w < GetWeightByIdx(mret.validatorIdx)
        /\ TotalWeight - w \in 1..MaxWeight}

\* updMetric of the call's median, cur and upd for a validator of weight w in a
\* validator set of the call's total weight
MetricAtWeight(w) == updMetricOf(mret.median, mret.cur, mret.upd, w, TotalWeight)

\* C11: for fixed median, cur, upd and total weight, updMetric is
\* non-decreasing in the validator's weight, the marginal branch
\* median < cur < upd included: no smaller weight gives a larger metric than the
\* call made.
C11_MonotoneInWeight ==
    mret.called => \A w \in SmallerWeights : MetricAtWeight(w) <= mret.metric

\* C11 amended: outside the marginal branch no smaller weight gives a larger
\* metric; in the marginal branch median < cur < upd a smaller weight gives a
\* metric at most one unit larger than the call's.
C11_MonotoneInWeightUpToOne ==
    mret.called =>
        \A w \in SmallerWeights :
            IF mret.median < mret.cur /\ mret.cur < mret.upd
            THEN MetricAtWeight(w) <= mret.metric + 1
            ELSE MetricAtWeight(w) <= mret.metric

\* C11 witness: a call in the marginal branch for a validator of weight 4 of 6
\* whose metric is 0 although weight 3 of 6 gives 1
C11_Witness ==
    /\ mret.called
    /\ mret.median < mret.cur
    /\ mret.cur < mret.upd
    /\ mret.metric = 0
    /\ \E w \in SmallerWeights : MetricAtWeight(w) = 1

\* ---- the claims about kickStartMetric and eventMetric (checked under SpecEvent)
\* the metric the call of eventMetric gave to kickStartMetric
KickInput == eventMetricF[Uint(eret.orig)]

\* C12: kickStartMetric boosts as a function of the metric it is given: it adds
\* 0.1*DecimalUnit when seq <= 2 and the metric is below 0.9*DecimalUnit, and a
\* further 0.2*DecimalUnit when seq <= 1 and the given metric is at most
\* 0.8*DecimalUnit, so that seq <= 1 and a given metric of at most
\* 0.8*DecimalUnit result in the metric plus 0.3*DecimalUnit.
C12_BoostsOnInput ==
    eret.called =>
        /\ (eret.seq <= 2 /\ eret.seq > 1 /\ KickInput < (9 * DecimalUnit) \div 10)
              => eret.metric = KickInput + DecimalUnit \div 10
        /\ (eret.seq <= 1 /\ KickInput <= (8 * DecimalUnit) \div 10)
              => eret.metric = KickInput + (3 * DecimalUnit) \div 10

\* C12 amended: the second boost is decided on the metric after the first
\* boost.  For seq <= 1 a given metric of at most 0.7*DecimalUnit results in
\* the metric plus 0.3*DecimalUnit, and one above 0.7*DecimalUnit and below
\* 0.9*DecimalUnit in the metric plus 0.1*DecimalUnit; for seq = 2 a given
\* metric below 0.9*DecimalUnit results in the metric plus 0.1*DecimalUnit; a
\* given metric of 0.9*DecimalUnit or more is returned as it is.
C12_BoostsInSequence ==
    eret.called =>
        /\ (eret.seq <= 1 /\ KickInput <= (7 * DecimalUnit) \div 10)
              => eret.metric = KickInput + (3 * DecimalUnit) \div 10
        /\ (eret.seq <= 1 /\ KickInput > (7 * DecimalUnit) \div 10
                          /\ KickInput < (9 * DecimalUnit) \div 10)
              => eret.metric = KickInput + DecimalUnit \div 10
        /\ (eret.seq = 2 /\ KickInput < (9 * DecimalUnit) \div 10)
              => eret.metric = KickInput + DecimalUnit \div 10
        /\ KickInput >= (9 * DecimalUnit) \div 10
              => eret.metric = KickInput

\* C12 witness: a call with seq <= 1 and a given metric of exactly
\* 0.8*DecimalUnit, which results in 0.9*DecimalUnit
C12_Witness ==
    /\ eret.called
    /\ eret.seq <= 1
    /\ KickInput = (8 * DecimalUnit) \div 10
    /\ eret.metric = (9 * DecimalUnit) \div 10

\* C13: for every seq > 2 and every raw metric, eventMetric(raw, seq) is the
\* piece function applied to raw, with no kickstart adjustment.
C13_NoKickAfterTwo ==
    (eret.called /\ eret.seq > 2) => eret.metric = eventMetricF[Uint(eret.orig)]

\* C13 witness: a call with seq > 2 where the piece function gives 0, a value
\* both boosts would raise, and the result is 0
C13_Witness ==
    /\ eret.called
    /\ eret.seq > 2
    /\ eventMetricF[Uint(eret.orig)] = 0
    /\ eret.metric = 0

\* ---- further claims about the emitter (checked under Spec) ------------------
\* the call that returned, made again on the present state of the emitter by
\* the creator c with a candidate created at time t
CallAgain(c, t) ==
    isAllowedToEmit(c, t, ret.gas, ret.eTxs, ret.metric, ret.selfParent,
                    ret.adjustedEmitInterval)

\* C14: with the creator's cached stake ratio r, passedTimeIdle becomes
\* passedTime when r < 0.35*DecimalUnit, the average of passedTimeIdle and
\* passedTime when 0.35*DecimalUnit <= r < 0.7*DecimalUnit, and stays as it is
\* when r >= 0.7*DecimalUnit; afterwards it is clamped to at most passedTime.
C14_StakeTierBlending ==
    Called =>
        LET r == stakeRatioOf(ret.creator)
            tiered ==
                IF r < (35 * DecimalUnit) \div 100
                THEN ret.passedTime
                ELSE IF r >= (35 * DecimalUnit) \div 100 /\ r < (7 * DecimalUnit) \div 10
                     THEN (ret.rawPassedTimeIdle + ret.passedTime) \div 2
                     ELSE ret.rawPassedTimeIdle
        IN  /\ ret.passedTimeIdle =
                  (IF tiered <= ret.passedTime THEN tiered ELSE ret.passedTime)
            /\ ret.passedTimeIdle <= ret.passedTime

\* C14 witness: a call by a creator whose stake ratio is exactly
\* 0.35*DecimalUnit, idle for a shorter time than since its last emission,
\* whose passedTimeIdle is the average, strictly between the two
C14_Witness ==
    /\ Called
    /\ stakeRatioOf(ret.creator) = (35 * DecimalUnit) \div 100
    /\ ret.rawPassedTimeIdle < ret.passedTimeIdle
    /\ ret.passedTimeIdle < ret.passedTime
    /\ ret.passedTimeIdle = (ret.rawPassedTimeIdle + ret.passedTime) \div 2

\* C15: the top-50 whitelist never restricts emission: the supermajority flag
\* is true in every call, the restricted path is never taken, and every other
\* creator, inside or outside the first 50 of SortedIDs(), gets the decision the
\* creator of the call got.
C15_WhitelistNeverRestricts ==
    Called =>
        /\ ret.supermajority
        /\ ret.rule \notin {"restrictedMax", "restrictedDefer"}
        /\ \A c \in Creators \ {ret.creator} :
              LET again == CallAgain(c, ret.creationTime)
              IN  again.result = ret.result /\ again.rule = ret.rule

\* C15 witness: a call by this node's validator, which is outside the first 50
\* of SortedIDs(), before intervals.Max has passed, that may emit
C15_Witness ==
    /\ Called
    /\ ret.creator = config.ValidatorID
    /\ ~isInTop50(ret.creator, sortedIDs)
    /\ ret.passedTime < intervals.Max
    /\ ret.supermajority
    /\ ret.result

\* C16: for every BlockMissedSlack the computed maxBlocks is
\* BlockMissedSlack/2 + 1 or BlockMissedSlack - 5, the larger of the two where
\* BlockMissedSlack - 5 is not negative, the subtraction does not wrap around,
\* and maxBlocks is at most BlockMissedSlack + 1.
C16_MaxBlocksBounded ==
    (Called /\ ret.rule # "emergency") =>
        LET half == blockMissedSlack \div 2 + 1
            less == blockMissedSlack - 5
        IN  /\ ret.maxBlocks = (IF less >= 0 /\ less > half THEN less ELSE half)
            /\ ret.maxBlocks <= blockMissedSlack + 1

\* C17: a candidate created before prevEmittedAtTime (prevIdleTime) has a
\* passedTime (passedTimeIdle) of 0, no elapsed time is negative, and the call
\* returns what it returns for an elapsed time of 0.
C17_ClockAnomalies ==
    Called =>
        /\ ret.passedTime >= 0
        /\ ret.rawPassedTimeIdle >= 0
        /\ ret.result \in BOOLEAN
        /\ ret.creationTime < prevEmittedAtTime =>
              (ret.passedTime = 0 /\ ret.adjustedPassedTime = 0)
        /\ ret.creationTime < prevIdleTime =>
              (ret.rawPassedTimeIdle = 0 /\ ret.adjustedPassedIdleTime = 0)
        /\ (ret.creationTime < prevEmittedAtTime /\ prevIdleTime = prevEmittedAtTime)
              => LET again == CallAgain(ret.creator, prevEmittedAtTime)
                 IN  again.result = ret.result /\ again.rule = ret.rule

\* C17 witness: a call on a candidate created before both the last emission
\* and the last idle time, decided by the test passedTime < intervals.Min
C17_Witness ==
    /\ Called
    /\ ret.creationTime < prevEmittedAtTime
    /\ ret.creationTime < prevIdleTime
    /\ prevIdleTime = prevEmittedAtTime
    /\ ret.passedTime = 0
    /\ ret.rule = "metricMin"

\* C18: isAllowedToEmit leaves prevEmittedAtTime, prevIdleTime,
\* prevEmittedAtBlock and stakeRatio as they were on every path, so the same
\* call made again returns the same result.
C18_CallLeavesState ==
    /\ [][(emitPc' # emitPc /\ emitPc' \in {"read", "returned"})
             => UNCHANGED emitterState]_vars
    /\ [](Called => CallAgain(ret.creator, ret.creationTime) = ret)

\* C18 witness: a call that took the emergency return, on a candidate whose
\* creation time differs from prevIdleTime, with its elapsed times still those
\* of the emitter's state
C18_Witness ==
    /\ Called
    /\ ret.rule = "emergency"
    /\ ret.creationTime # prevIdleTime
    /\ ret.passedTime = passedSince(ret.creationTime, prevEmittedAtTime)
    /\ ret.rawPassedTimeIdle = passedSince(ret.creationTime, prevIdleTime)

\* C19: recheckIdleTime takes the world lock, sets prevIdleTime to the current
\* time if the emitter is idle and leaves it otherwise, never changes
\* prevEmittedAtTime, prevEmittedAtBlock or stakeRatio, and releases the lock
\* when it returns.
C19_RecheckIdleTime ==
    /\ [](worldLock = "recheck" <=> recheck.pc \in {"locked", "deferred"})
    /\ [][/\ (recheck.pc = "idle" /\ recheck'.pc = "locked")
               => (worldLock = "free" /\ worldLock' = "recheck"
                   /\ UNCHANGED emitterState)
          /\ (recheck.pc = "locked" /\ recheck'.pc = "deferred")
               => /\ recheck'.idle = isIdle
                  /\ recheck'.now \in NowTimes
                  /\ prevIdleTime' =
                        (IF isIdle THEN recheck'.now ELSE prevIdleTime)
                  /\ UNCHANGED <<prevEmittedAtTime, prevEmittedAtBlock,
                                 stakeRatio, worldLock>>
          /\ (recheck.pc = "deferred" /\ recheck'.pc = "idle")
               => (worldLock' = "free" /\ UNCHANGED emitterState)]_vars

\* C19 witness: recheckIdleTime has run its body on an emitter that was not
\* idle, holds the lock, and prevIdleTime is not the time it read
C19_Witness ==
    /\ recheck.pc = "deferred"
    /\ ~recheck.idle
    /\ worldLock = "recheck"
    /\ prevIdleTime # recheck.now

RatioValues ==
    {0, (35 * DecimalUnit) \div 100 - 1, (35 * DecimalUnit) \div 100,
     (7 * DecimalUnit) \div 10 - 1, (7 * DecimalUnit) \div 10, DecimalUnit}

\* the outcome of the call that returned had the creator's cached stake ratio
\* been r and everything else the same
OutcomeAtRatio(r) ==
    LET q == [ret EXCEPT !.passedTimeIdle =
                  blendIdle(r, ret.rawPassedTimeIdle, ret.passedTime)]
    IN  IF q.supermajority THEN cascade(q) ELSE restricted(q)

\* C22: the outcome of isAllowedToEmit does not depend on the creator's cached
\* stake ratio: a call that differs only in stakeRatio[creator] selects the
\* same rule and returns the same result.
C22_RatioIndependent ==
    Called =>
        \A r \in RatioValues :
            LET out == OutcomeAtRatio(r)
            IN  out.rule = ret.rule /\ out.result = ret.result

\* C22 witness: a call decided by the test of adjustedPassedIdleTime although
\* the blended passedTimeIdle of its creator, adjusted by the metric, is not
\* below intervals.Confirming
C22_Witness ==
    /\ Called
    /\ ret.rule = "metricIdle"
    /\ ret.rawPassedTimeIdle < ret.passedTimeIdle
    /\ adjustedPassed(ret.passedTimeIdle, ret.metric) >= intervals.Confirming

\* ---- further claims about the metric functions ------------------------------
\* C23 (checked under SpecEvent): for every fixed seq, kickStartMetric is
\* non-decreasing in the metric it is given over 0 .. DecimalUnit, and
\* eventMetric is non-decreasing in raw for a monotone piece function: no
\* smaller input gives a larger result than the call made.
C23_KickMonotone ==
    eret.called =>
        /\ \A m \in EventPieceValues :
              m <= KickInput => kickStartMetric(m, eret.seq) <= eret.metric
        /\ \A orig \in EventArgs :
              orig <= eret.orig => eventMetric(orig, eret.seq) <= eret.metric

\* C24 (checked under SpecEvent): for every seq and every given metric in
\* 0 .. DecimalUnit, kickStartMetric returns a value that is at least the given
\* metric and at most DecimalUnit.
C24_KickSaturates ==
    eret.called =>
        /\ KickInput <= eret.metric
        /\ eret.metric <= DecimalUnit

\* C24 witness: a call with seq <= 1 and a given metric of 0.7*DecimalUnit,
\* which both boosts raise to exactly DecimalUnit
C24_Witness ==
    /\ eret.called
    /\ eret.seq <= 1
    /\ KickInput = (7 * DecimalUnit) \div 10
    /\ eret.metric = DecimalUnit

\* C25 (checked under SpecMetric): for a monotone piece function bounded by
\* DecimalUnit and a weight of at most the total weight, the subtraction in the
\* branch median < cur < upd does not go below 0 and the result of updMetric
\* lies in 0 .. DecimalUnit.
C25_NoWrap ==
    mret.called =>
        /\ mret.metric >= 0
        /\ mret.metric <= DecimalUnit
        /\ (mret.median < mret.cur /\ mret.cur < mret.upd) =>
              scalarUpdMetric(mret.upd - mret.median,
                              GetWeightByIdx(mret.validatorIdx), TotalWeight)
                 >= scalarUpdMetric(mret.cur - mret.median,
                                    GetWeightByIdx(mret.validatorIdx), TotalWeight)

\* C25 witness: a call in the branch median < cur < upd where the piece
\* function grows between the two distances and the result is positive
C25_Witness ==
    /\ mret.called
    /\ mret.median < mret.cur
    /\ mret.cur < mret.upd
    /\ scalarUpdMetricF[(mret.cur - mret.median) * DecimalUnit]
          < scalarUpdMetricF[(mret.upd - mret.median) * DecimalUnit]
    /\ mret.metric > 0
    /\ mret.metric < DecimalUnit

\* ---- the claim about FakeKey (checked under SpecKey) ------------------------
\* C21: FakeKey(n) panics for n = 0 and for every n above the 400 entries of
\* the table, and for 1 <= n <= 400 returns the key of entry n-1, the same key
\* on every call.
C21_FakeKeyRange ==
    kret.called =>
        /\ (kret.n = 0 \/ kret.n > 400) => kret.panic
        /\ (1 <= kret.n /\ kret.n <= 400) =>
              /\ ~kret.panic
              /\ kret.D = keys[kret.n - 1]
              /\ FakeKey(kret.n).D = kret.D
              /\ \A m \in KeyNums :
                    (m # kret.n /\ ~FakeKey(m).panic) => FakeKey(m).D # kret.D

\* C21 witness: a call with n = 400 that returned the key of the last entry
C21_Witness ==
    /\ kret.called
    /\ kret.n = 400
    /\ ~kret.panic
    /\ kret.D = keys[399]

\* ---- C26 -------------------------------------------------------------------
\* the AddToQueue calls that the events of a sequence give rise to, in order
RECURSIVE QueueOf(_)
QueueOf(events) == IF events = <<>> THEN <<>> ELSE [i \in 1..Len(validateHashEvent(Head(events))) |-> <<Head(events), validateHashEvent(Head(events))[i]>>] \o QueueOf(Tail(events))

\* the AddToQueue calls the worker still owes for the event it is working on
PendingCalls == [i \in 1..Len(worker.tokens) |-> <<worker.evt, worker.tokens[i]>>]

\* C26: the events the worker has validated and the events still in the
\* channel are together exactly the events sent, in the order sent, so every
\* event is validated once, in order, and none is dropped; the AddToQueue
\* calls made and the ones still owed for the current event are exactly one
\* call (HashId, currencyCode) per token of the validated events, in order;
\* and when the worker has ended every event sent has been relayed in full.
C26_EventRelay ==
    /\ sent = validated \o eventChannel.buf
    /\ queue \o PendingCalls = QueueOf(validated)
    /\ worker.pc = "done" => validated = sent /\ queue = QueueOf(sent)

\* the channel was closed over two different events still to be relayed, the
\* worker has relayed both and has ended
C26_Witness ==
    /\ worker.pc = "done"
    /\ Len(validated) = 2
    /\ validated[1] > validated[2]
    /\ Len(queue) = 3

\* ---- C27 -------------------------------------------------------------------
\* the worker and the watcher loop started by Start have both ended
GoroutinesTerminated == worker.pc = "done" /\ watcherPc = "done"

\* C27: a call of Close on a listener that was never started changes nothing;
\* the event channel is closed only after the subscription is unsubscribed,
\* and the client connection only after the event channel; and once Close
\* has closed the connection, the worker and the watcher loop eventually
\* both terminate.
C27_Shutdown ==
    /\ [][(closeCalls' # closeCalls /\ ~enabled) => UNCHANGED <<enabled, conn, eventChannel, sub, startPc, closePc, watcherPc, worker, panicked, sent, validated, queue, chanCloses>>]_vars
    /\ [](eventChannel.closed => sub = "unsubscribed")
    /\ [](conn = "closed" => eventChannel.closed)
    /\ ((conn = "closed" /\ ~panicked) ~> (panicked \/ GoroutinesTerminated))

\* ---- C28 -------------------------------------------------------------------
\* Close has taken its enabled branch and has not returned
CloseInEnabledBranch == closePc \in {"unsubscribe", "closeChannel", "closeConn"}

\* C28: whenever Close is in its enabled branch the subscription and the
\* event channel have been set by Start; close is executed on the event
\* channel at most once; and nothing is sent on the channel after it is
\* closed.
C28_StartCloseInterleavings ==
    /\ CloseInEnabledBranch => sub # "nil" /\ eventChannel.made
    /\ chanCloses <= 1
    /\ ~sentAfterClose


====
